---- MODULE Spec2Model ----
(***************************************************************************)
(* Model of graphics/pdcurs34/pdcurses/pdc_pad.c (pads: newpad, subpad,    *)
(* prefresh, pnoutrefresh, pechochar) and of nshlib/nsh_fsutils.c          *)
(* (nsh_catfile, nsh_readfile).                                            *)
(***************************************************************************)
EXTENDS Integers, Sequences, FiniteSets, TLC

(***************************************************************************)
(* Bounds of the model.                                                    *)
(***************************************************************************)
\* physical screen height and width (the curses globals LINES and COLS)
LINES == 3
COLS == 2
\* largest pad newpad() is asked for
MaxPadLines == 2
MaxPadCols == 2
\* character codes 1..MaxCh besides the blank
MaxCh == 1
\* number of pad API calls in one run of the sequence specification
MaxOps == 3
\* file helpers: longest file, largest buffer handed to nsh_readfile, the
\* size of nsh_catfile's I/O buffer (IOBUFFERSIZE of nsh.h, scaled down), and
\* the most interrupts and I/O errors in one run
MaxFileLen == 3
MaxBufLen == 3
IOBUFFERSIZE == 2
MaxIntr == 2
MaxErr == 2

(***************************************************************************)
(* Program constants.                                                      *)
(***************************************************************************)
\* curses.h: "no change since last refresh" sentinel of _firstch/_lastch
NO_CHANGE == -1
\* the blank cell werase() fills a new pad with
Blank == 0
\* memcpy's length is num_cols * sizeof(chtype) converted to size_t: with a
\* 32-bit size_t and a 4-byte chtype that is num_cols modulo 2^30 cells
AddrCells == 1073741824

OK == "OK"
ERR == "ERR"

min(a, b) == IF a < b THEN a ELSE b

Cell == 0..MaxCh

VARIABLES
  save,     \* save_pminrow .. save_smaxcol, the values kept for pechochar()
  pad,      \* the pad the application holds (WINDOW made by newpad), or NullWin
  sub,      \* the sub-pad the application holds (made by subpad), or NullWin
  store,    \* the cell storage PDC_makelines gave the pad: row -> column -> cell
  curscr,   \* the virtual screen
  call,     \* the last pad API call: what was called, with what, and what came back
  crashed,  \* an access outside every object brought the program down
  nops,     \* pad API calls made so far
  fs        \* the state of the file helper that is running (nsh_fsutils.c)

padvars == <<save, pad, sub, store, curscr, call, crashed, nops>>
vars == <<save, pad, sub, store, curscr, call, crashed, nops, fs>>

(***************************************************************************)
(* Windows.  _y[i] is a pointer into the pad's storage: the pair           *)
(* <<row of the storage, column offset>>.                                  *)
(***************************************************************************)
NullWin ==
  [flags |-> "NULL", maxy |-> 0, maxx |-> 0, begy |-> 0, begx |-> 0,
   cury |-> 0, curx |-> 0, leaveit |-> FALSE, clear |-> FALSE,
   firstch |-> <<>>, lastch |-> <<>>, y |-> <<>>]

\* a pointer that points into no object of the model
Nowhere == <<-1, 0>>

\* PDC_makenew(nlines, ncols, begy, begx): a window header with no lines yet
PDC_makenew(nlines, ncols, begy, begx) ==
  [flags |-> "0", maxy |-> nlines, maxx |-> ncols, begy |-> begy, begx |-> begx,
   cury |-> 0, curx |-> 0, leaveit |-> FALSE, clear |-> FALSE,
   firstch |-> [i \in 0..(nlines - 1) |-> 0],
   lastch |-> [i \in 0..(nlines - 1) |-> ncols - 1],
   y |-> [i \in 0..(nlines - 1) |-> Nowhere]]

\* PDC_makelines(win): storage for every line, _y[i] pointing at line i
PDC_makelines(win) ==
  [win EXCEPT !.y = [i \in 0..(win.maxy - 1) |-> <<i, 0>>]]

\* werase(win): every cell blank
werase(win) ==
  [i \in 0..(win.maxy - 1) |-> [j \in 0..(win.maxx - 1) |-> Blank]]

NoSave ==
  [pminrow |-> 0, pmincol |-> 0, sminrow |-> 0, smincol |-> 0,
   smaxrow |-> 0, smaxcol |-> 0]

\* the defaults newpad() and subpad() leave for pechochar()
SaveDefault(nlines, ncols) ==
  [pminrow |-> 0, pmincol |-> 0, sminrow |-> 0, smincol |-> 0,
   smaxrow |-> min(LINES, nlines) - 1, smaxcol |-> min(COLS, ncols) - 1]

SaveRect(s) == <<s.pminrow, s.pmincol, s.sminrow, s.smincol, s.smaxrow, s.smaxcol>>

\* rect is the rectangle handed to pnoutrefresh(), wrote the screen cells it
\* stored to, readc the pad cells it loaded, ub the accesses outside an object,
\* lines the screen lines memcpy ran for
NoCall == [op |-> "none", w |-> "none", args |-> <<>>, rect |-> <<>>,
           ret |-> "none", lines |-> {}, wrote |-> {}, readc |-> {}, ub |-> {}]


Win(wid) == IF wid = "pad" THEN pad ELSE IF wid = "sub" THEN sub ELSE NullWin

(***************************************************************************)
(* pnoutrefresh(w, py, px, sy1, sx1, sy2, sx2), as a function of the pad,  *)
(* its storage, the screen and the arguments.  junk is what a read outside *)
(* every object returns.                                                   *)
(***************************************************************************)
IsPad(w) == w.flags \in {"_PAD", "_SUBPAD"}

\* the far-corner test of the first check
FarCornerRejected(sy2, sx2) == (sy2 >= LINES) \/ (sy2 >= COLS)

\* "if (v < 0) v = 0"
Clamp0(v) == IF v < 0 THEN 0 ELSE v

\* the row walk starts from the values sline and pline were initialised with
StartSline(sy1) == sy1
StartPline(py) == py

NumCols(w, px, sx1, sx2) == min(sx2 - sx1 + 1, w.maxx - px)

\* the number of cells memcpy moves for a length of n * sizeof(chtype)
MemcpyCells(n) == n % AddrCells

\* NewLastch with the comparison lost: the last changed column is overwritten
NewLastch_overwrite(old, sx2) == sx2

NewFirstch(old, sx1) == IF old = NO_CHANGE \/ old > sx1 THEN sx1 ELSE old
NewLastch(old, sx2) == IF sx2 > old THEN sx2 ELSE old

\* CursorShown with the bottom edge excluded
CursorShown_strict(w, py, px, sy1, sx1, sy2, sx2) ==
  /\ ~w.leaveit
  /\ w.cury >= py
  /\ w.curx >= px
  /\ w.cury < py + (sy2 - sy1)
  /\ w.curx <= px + (sx2 - sx1)

\* is the pad's cursor inside the part of the pad that was displayed?
CursorShown(w, py, px, sy1, sx1, sy2, sx2) ==
  /\ ~w.leaveit
  /\ w.cury >= py
  /\ w.curx >= px
  /\ w.cury <= py + (sy2 - sy1)
  /\ w.curx <= px + (sx2 - sx1)

\* the cell w->_y[pl][pc]
Src(w, st, pl, pc, junk) ==
  IF pl \in DOMAIN w.y
  THEN LET j == w.y[pl][1]
           k == w.y[pl][2] + pc
       IN IF j \in DOMAIN st
          THEN (IF k \in DOMAIN st[j] THEN st[j][k] ELSE junk)
          ELSE junk
  ELSE junk

Failed(w, scr) ==
  [ret |-> ERR, w |-> w, scr |-> scr, lines |-> {}, wrote |-> {}, readc |-> {},
   ub |-> {}]

PNoutRefresh(w, st, scr, a, junk) ==
  LET sline0 == StartSline(a[3])
      pline0 == StartPline(a[1])
      sy2 == a[5]
      sx2 == a[6]
  IN
  IF ~IsPad(w) \/ FarCornerRejected(sy2, sx2) THEN Failed(w, scr)
  ELSE
  LET py == Clamp0(a[1])
      px == Clamp0(a[2])
      sy1 == Clamp0(a[3])
      sx1 == Clamp0(a[4])
  IN
  IF sy2 < sy1 \/ sx2 < sx1 THEN Failed(w, scr)
  ELSE
  LET num_cols == NumCols(w, px, sx1, sx2)
      cnt == MemcpyCells(num_cols)
      PlineOf(sl) == pline0 + (sl - sline0)
      \* the screen lines of the walk whose pad line passes "pline < w->_maxy"
      slines == {sl \in sline0..sy2 : PlineOf(sl) < w.maxy}
      plines == {PlineOf(sl) : sl \in slines}
      \* the columns memcpy stores to; column COLS stands for all that lies
      \* beyond the end of a screen line
      dcols == sx1..min(sx1 + cnt - 1, COLS)
      Copied(r, c) == r \in slines /\ c \in dcols
      newy == [r \in DOMAIN scr.y |->
                [c \in DOMAIN scr.y[r] |->
                   IF Copied(r, c)
                   THEN Src(w, st, PlineOf(r), px + (c - sx1), junk)
                   ELSE scr.y[r][c]]]
      newfirst == [r \in DOMAIN scr.firstch |->
                     IF r \in slines THEN NewFirstch(scr.firstch[r], sx1)
                     ELSE scr.firstch[r]]
      newlast == [r \in DOMAIN scr.lastch |->
                    IF r \in slines THEN NewLastch(scr.lastch[r], sx2)
                    ELSE scr.lastch[r]]
      wfirst == [p \in DOMAIN w.firstch |->
                   IF p \in plines THEN NO_CHANGE ELSE w.firstch[p]]
      wlast == [p \in DOMAIN w.lastch |->
                  IF p \in plines THEN NO_CHANGE ELSE w.lastch[p]]
      shown == CursorShown(w, py, px, sy1, sx1, sy2, sx2)
      ub == {"curscr->_y[sline], sline < 0" : sl \in {x \in slines : x < 0}}
            \cup {"w->_y[pline], pline < 0" : p \in {x \in plines : x < 0}}
            \cup {"memcpy, length < 0" : sl \in {x \in slines : num_cols < 0}}
            \cup {"memcpy past the end of the screen line" :
                     sl \in {x \in slines : num_cols > 0 /\ sx1 + num_cols > COLS}}
  IN
  [ret |-> OK,
   w |-> [w EXCEPT !.firstch = wfirst, !.lastch = wlast, !.clear = FALSE],
   scr |-> [y |-> newy, firstch |-> newfirst, lastch |-> newlast,
            cury |-> IF shown THEN (w.cury - py) + sy1 ELSE scr.cury,
            curx |-> IF shown THEN (w.curx - px) + sx1 ELSE scr.curx,
            clear |-> scr.clear \/ w.clear],
   lines |-> slines,
   wrote |-> {<<sl, c>> : sl \in slines, c \in dcols},
   readc |-> {<<p, px + (c - sx1)>> : p \in plines, c \in dcols},
   ub |-> ub]

(***************************************************************************)
(* The collaborators of pdc_pad.c: doupdate(), waddch(), wmove(),          *)
(* leaveok().                                                              *)
(***************************************************************************)
\* doupdate(): the physical screen is brought up to date; the damage ranges
\* and the pending full redraw are consumed
doupdate(scr) ==
  [scr EXCEPT !.firstch = [r \in DOMAIN scr.firstch |-> NO_CHANGE],
              !.lastch = [r \in DOMAIN scr.lastch |-> NO_CHANGE],
              !.clear = FALSE]

CursorInside(w) == w.cury \in 0..(w.maxy - 1) /\ w.curx \in 0..(w.maxx - 1)

\* waddch(w, ch): the cell at the cursor becomes ch, its line is marked
\* changed and the cursor advances, wrapping to the next line; ERR for no
\* window, for a cursor outside the window and at the end of the last line
waddch(w, st, ch) ==
  IF ~IsPad(w) \/ ~CursorInside(w) THEN [ret |-> ERR, w |-> w, st |-> st]
  ELSE
  LET j == w.y[w.cury][1]
      k == w.y[w.cury][2] + w.curx
      st1 == IF j \in DOMAIN st /\ k \in DOMAIN st[j]
             THEN [st EXCEPT ![j][k] = ch] ELSE st
      w1 == [w EXCEPT !.firstch[w.cury] = NewFirstch(@, w.curx),
                      !.lastch[w.cury] = NewLastch(@, w.curx)]
      atend == w.curx + 1 >= w.maxx
      last == w.cury + 1 >= w.maxy
  IN IF ~atend THEN [ret |-> OK, w |-> [w1 EXCEPT !.curx = @ + 1], st |-> st1]
     ELSE IF ~last
          THEN [ret |-> OK, w |-> [w1 EXCEPT !.curx = 0, !.cury = @ + 1], st |-> st1]
          ELSE [ret |-> ERR, w |-> w1, st |-> st1]

(***************************************************************************)
(* State after initscr(): no pad yet, a blank and clean screen.  The save_ *)
(* statics are zero.                                                       *)
(***************************************************************************)
InitScreen ==
  [y |-> [r \in 0..(LINES - 1) |-> [c \in 0..(COLS - 1) |-> Blank]],
   firstch |-> [r \in 0..(LINES - 1) |-> NO_CHANGE],
   lastch |-> [r \in 0..(LINES - 1) |-> NO_CHANGE],
   cury |-> 0, curx |-> 0, clear |-> FALSE]

\* no file helper has been called yet
NoFile ==
  [pc |-> "idle", helper |-> "none", len |-> 0, pos |-> 0, buflen |-> 0,
   remaining |-> 0, ntotal |-> 0, buf |-> <<>>, chunk |-> <<>>,
   nbyteswritten |-> 0, out |-> <<>>, ret |-> "none", rep |-> <<>>,
   nintr |-> 0, nerr |-> 0, late |-> 0]

InitPad ==
  /\ save = NoSave
  /\ pad = NullWin
  /\ sub = NullWin
  /\ store = <<>>
  /\ curscr = InitScreen
  /\ call = NoCall
  /\ crashed = FALSE
  /\ nops = 0

SetWin(wid, w) ==
  /\ pad' = IF wid = "pad" THEN w ELSE pad
  /\ sub' = IF wid = "sub" THEN w ELSE sub

(***************************************************************************)
(* newpad(nlines, ncols).  alloc: do PDC_makenew and PDC_makelines get     *)
(* their memory?  The application keeps the pad it is given and drops the  *)
(* pad and sub-pad it held.                                                *)
(***************************************************************************)
newpad(nlines, ncols, alloc) ==
  /\ call' = [NoCall EXCEPT !.op = "newpad", !.args = <<nlines, ncols>>,
                             !.ret = IF alloc THEN "win" ELSE "NULL"]
  /\ IF ~alloc THEN UNCHANGED <<save, pad, sub, store>>
     ELSE LET win == PDC_makelines(PDC_makenew(nlines, ncols, -1, -1))
          IN /\ store' = werase(win)
             /\ pad' = [win EXCEPT !.flags = "_PAD"]
             /\ sub' = NullWin
             /\ save' = SaveDefault(nlines, ncols)
  /\ UNCHANGED <<curscr, crashed>>

(***************************************************************************)
(* subpad(orig, nlines, ncols, begy, begx).  g is the value the read of    *)
(* orig->_y[j] returns when j is no line of orig.  The application keeps   *)
(* the sub-pad it is given.                                                *)
(***************************************************************************)
\* "Make sure window fits inside the original one"
SubpadRejected(orig, nlines, ncols, begy, begx) ==
  \/ begy < orig.begy
  \/ begx < orig.begx
  \/ (begy + nlines) > (orig.begy + orig.maxy)
  \/ (begx + ncols) > (orig.begx + orig.maxx)

\* a count of zero means "up to the edge of the original"
SubpadLines(orig, nlines, j) == IF nlines = 0 THEN orig.maxy - 1 - j ELSE nlines
SubpadCols(orig, ncols, k) == IF ncols = 0 THEN orig.maxx - 1 - k ELSE ncols

\* win->_y[i] = (orig->_y[j++]) + k
SubpadRow(orig, j, k, g) ==
  IF j \in DOMAIN orig.y THEN <<orig.y[j][1], orig.y[j][2] + k>> ELSE <<g, k>>

subpad(oid, nlines0, ncols0, begy, begx, alloc, g) ==
  LET orig == Win(oid)
      j == begy
      k == begx
      fail == call' = [NoCall EXCEPT !.op = "subpad", !.w = oid, !.ret = "NULL",
                                     !.args = <<nlines0, ncols0, begy, begx>>]
  IN
  IF orig.flags # "_PAD" \/ SubpadRejected(orig, nlines0, ncols0, begy, begx)
     \/ ~alloc
  THEN fail /\ UNCHANGED <<save, pad, sub, store, curscr, crashed>>
  ELSE
  LET nlines == SubpadLines(orig, nlines0, j)
      ncols == SubpadCols(orig, ncols0, k)
      win == PDC_makenew(nlines, ncols, begy, begx)
      rows == [i \in 0..(nlines - 1) |-> SubpadRow(orig, j + i, k, g)]
      ub == {"orig->_y[j], j < 0" : i \in {x \in 0..(nlines - 1) : j + x < 0}}
            \cup {"orig->_y[j] + k, k < 0" : i \in {x \in 0..(nlines - 1) : k < 0}}
  IN
  /\ sub' = [win EXCEPT !.leaveit = orig.leaveit, !.y = rows, !.flags = "_SUBPAD"]
  /\ save' = SaveDefault(nlines, ncols)
  /\ call' = [NoCall EXCEPT !.op = "subpad", !.w = oid, !.ret = "win",
                             !.args = <<nlines0, ncols0, begy, begx>>, !.ub = ub]
  /\ UNCHANGED <<pad, store, curscr, crashed>>

(***************************************************************************)
(* pnoutrefresh(), prefresh() and pechochar().  An access outside every    *)
(* object either brings the program down or goes on with what it found.    *)
(***************************************************************************)
\* the accesses that load from outside every object
JunkRead(ub) == ub \cap {"w->_y[pline], pline < 0", "memcpy, length < 0"} # {}

Refresh(opname, wid, args, rect, w, st, flush) ==
  LET probe == PNoutRefresh(w, st, curscr, rect, Blank)
      Rec(r) == [op |-> opname, w |-> wid, args |-> args, rect |-> rect,
                 ret |-> r.ret, lines |-> r.lines, wrote |-> r.wrote,
                 readc |-> r.readc, ub |-> r.ub]
  IN
  \/ /\ probe.ub # {}
     /\ crashed' = TRUE
     /\ call' = [Rec(probe) EXCEPT !.ret = "none"]
     /\ UNCHANGED <<save, pad, sub, store, curscr>>
  \/ \E junk \in (IF JunkRead(probe.ub) THEN Cell ELSE {Blank}) :
       LET r == IF junk = Blank THEN probe
                ELSE PNoutRefresh(w, st, curscr, rect, junk)
       IN /\ SetWin(wid, r.w)
          /\ store' = st
          /\ curscr' = IF flush /\ r.ret = OK THEN doupdate(r.scr) ELSE r.scr
          /\ call' = Rec(r)
          /\ UNCHANGED <<save, crashed>>

pnoutrefresh(wid, a) == Refresh("pnoutrefresh", wid, a, a, Win(wid), store, FALSE)

prefresh(wid, a) == Refresh("prefresh", wid, a, a, Win(wid), store, TRUE)

\* the rectangle pechochar() hands to prefresh()
EchoRect == SaveRect(save)

pechochar(wid, ch) ==
  LET a == waddch(Win(wid), store, ch) IN
  IF a.ret = ERR
  THEN /\ SetWin(wid, a.w)
       /\ store' = a.st
       /\ call' = [NoCall EXCEPT !.op = "pechochar", !.w = wid, !.args = <<ch>>,
                                  !.ret = ERR]
       /\ UNCHANGED <<save, curscr, crashed>>
  ELSE Refresh("pechochar", wid, <<ch>>, EchoRect, a.w, a.st, TRUE)

\* wmove(w, y, x) and leaveok(w, bf) of the application, between the calls
wmove(wid, y, x) ==
  /\ IsPad(Win(wid))
  /\ y \in 0..(Win(wid).maxy - 1)
  /\ x \in 0..(Win(wid).maxx - 1)
  /\ SetWin(wid, [Win(wid) EXCEPT !.cury = y, !.curx = x])
  /\ UNCHANGED <<save, store, curscr, call, crashed>>

leaveok(wid, bf) ==
  /\ IsPad(Win(wid))
  /\ SetWin(wid, [Win(wid) EXCEPT !.leaveit = bf])
  /\ UNCHANGED <<save, store, curscr, call, crashed>>

(***************************************************************************)
(* Spec: runs of up to MaxOps pad API calls, with rectangles from SeqRects. *)
(***************************************************************************)
\* corners of the rectangles of the sequence specification
SeqMax == 1

PadSizes == (1..MaxPadLines) \X (1..MaxPadCols)
Chars == 1..MaxCh
Wids == {"pad", "sub"}

\* one-cell rectangles at (y, x), and the rectangle from (0, 0) to (SeqMax, SeqMax)
SeqRects ==
  {<<0, 0, y, x, y, x>> : y \in 0..SeqMax, x \in 0..SeqMax}
  \cup {<<0, 0, 0, 0, SeqMax, SeqMax>>}

SeqSubpads == {<<1, 1, 0, 0>>, <<0, 0, 0, 0>>}

Step == ~crashed /\ nops < MaxOps /\ nops' = nops + 1 /\ UNCHANGED fs

Init == InitPad /\ fs = NoFile

SeqNewpad ==
  Step /\ \E sz \in PadSizes, alloc \in BOOLEAN : newpad(sz[1], sz[2], alloc)

SeqSubpad ==
  Step /\ \E a \in SeqSubpads, alloc \in BOOLEAN :
            subpad("pad", a[1], a[2], a[3], a[4], alloc, -1)

SeqPnoutrefresh == Step /\ \E wid \in Wids, a \in SeqRects : pnoutrefresh(wid, a)

SeqPrefresh == Step /\ \E wid \in Wids, a \in SeqRects : prefresh(wid, a)

SeqPechochar == Step /\ \E wid \in Wids, ch \in Chars : pechochar(wid, ch)

Next == SeqNewpad \/ SeqSubpad \/ SeqPnoutrefresh \/ SeqPrefresh \/ SeqPechochar

Spec == Init /\ [][Next]_vars

(***************************************************************************)
(* SpecCall: the application makes a pad, moves its cursor and sets        *)
(* leaveok as it likes, and then makes one call of pnoutrefresh() or       *)
(* subpad() with arguments from the whole range.                           *)
(***************************************************************************)
Called == call.op \in {"pnoutrefresh", "subpad"}

Setup == ~crashed /\ ~Called /\ UNCHANGED <<nops, fs>>

CallArgs ==
  {<<py, px, sy1, sx1, sy2, sx2>> :
     py \in -1..(MaxPadLines - 1), px \in -1..MaxPadCols,
     sy1 \in -1..(LINES - 1), sx1 \in -1..(COLS - 1),
     sy2 \in 0..LINES, sx2 \in 0..COLS}

CallNewpad == Setup /\ \E sz \in PadSizes : newpad(sz[1], sz[2], TRUE)

CallWmove == Setup /\ \E y \in 0..MaxPadLines, x \in 0..MaxPadCols : wmove("pad", y, x)

CallLeaveok == Setup /\ \E bf \in BOOLEAN : leaveok("pad", bf)

CallPnoutrefresh == Setup /\ IsPad(pad) /\ \E a \in CallArgs : pnoutrefresh("pad", a)

CallSubpad ==
  Setup /\ IsPad(pad)
  /\ \E nl \in 0..MaxPadLines, nc \in 0..MaxPadCols,
        by \in -1..MaxPadLines, bx \in -1..MaxPadCols,
        alloc \in BOOLEAN, g \in -1..0 :
       subpad("pad", nl, nc, by, bx, alloc, g)

NextCall == CallNewpad \/ CallWmove \/ CallLeaveok \/ CallPnoutrefresh \/ CallSubpad

SpecCall == Init /\ [][NextCall]_vars

(***************************************************************************)
(* Properties of the pad functions.                                        *)
(***************************************************************************)
Composited == call.op = "pnoutrefresh" /\ call.ret = OK
Composited2 == call'.op = "pnoutrefresh" /\ call'.ret = OK

\* C1: pechochar() displays with the rectangle of the most recent explicit
\* composite call or pad creation: when it directly follows a successful
\* pnoutrefresh()/prefresh() with rectangle R it hands R to prefresh(), and
\* when it directly follows a pad creation it hands on the creation default.
C1_EchoUsesLastRegion ==
  [][(call'.op = "pechochar" /\ call'.rect # <<>>) =>
       /\ (call.op \in {"pnoutrefresh", "prefresh"} /\ call.ret = OK)
            => call'.rect = call.rect
       /\ (call.op \in {"newpad", "subpad"} /\ call.ret = "win")
            => call'.rect = SaveRect(save)]_vars

\* C2: pnoutrefresh() fails whenever sy2 >= LINES or sx2 >= COLS, and its
\* far-corner check rejects for no other reason.
C2_FarCornerChecked ==
  (call.op = "pnoutrefresh" /\ call.ret # "none") =>
     /\ (call.args[5] >= LINES \/ call.args[6] >= COLS) => call.ret = ERR
     /\ FarCornerRejected(call.args[5], call.args[6])
          => (call.args[5] >= LINES \/ call.args[6] >= COLS)

\* C3: a successful pnoutrefresh() stores only to screen cells of lines
\* max(sy1,0)..sy2 and columns max(sx1,0)..sx2, all of them cells of the
\* physical screen.
C3_WritesInsideRectangle ==
  Composited =>
    \A rc \in call.wrote :
       /\ rc[1] \in Clamp0(call.args[3])..call.args[5]
       /\ rc[2] \in Clamp0(call.args[4])..call.args[6]
       /\ rc[1] \in 0..(LINES - 1)
       /\ rc[2] \in 0..(COLS - 1)

\* the damage range <<first, last>> joined with the columns lo..hi
Union(first, last, lo, hi) ==
  IF first = NO_CHANGE THEN <<lo, hi>>
  ELSE <<min(first, lo), IF last > hi THEN last ELSE hi>>

\* C4: a successful pnoutrefresh() (no flush) leaves every screen line it
\* copied to with the union of its old damage range and [sx1, sx2] (sx1
\* after clamping), and every other screen line with its old damage range.
C4_DamageWidens ==
  [][Composited2 =>
       \A r \in 0..(LINES - 1) :
          <<curscr'.firstch[r], curscr'.lastch[r]>> =
             IF r \in call'.lines
             THEN Union(curscr.firstch[r], curscr.lastch[r],
                        Clamp0(call'.args[4]), call'.args[6])
             ELSE <<curscr.firstch[r], curscr.lastch[r]>>]_vars

\* C4 witness: a line that was damaged left of the rectangle is copied to
C4_Witness ==
  /\ Composited
  /\ \E r \in call.lines \cap 0..(LINES - 1) :
        /\ curscr.firstch[r] < call.args[4]
        /\ curscr.lastch[r] = call.args[6]

\* C5: after a successful pnoutrefresh() of a pad (py, px, sy1, sx1 after
\* clamping): with _leaveit false and the pad cursor (r, c) in
\* py..py+(sy2-sy1) x px..px+(sx2-sx1) the screen cursor is
\* (r-py+sy1, c-px+sx1), which lies in sy1..sy2 x sx1..sx2; otherwise the
\* screen cursor is what it was.
C5_CursorRelocation ==
  [][(Composited2 /\ call'.w = "pad") =>
       LET py == Clamp0(call'.args[1])
           px == Clamp0(call'.args[2])
           sy1 == Clamp0(call'.args[3])
           sx1 == Clamp0(call'.args[4])
           sy2 == call'.args[5]
           sx2 == call'.args[6]
           inside == /\ pad.cury \in py..(py + (sy2 - sy1))
                     /\ pad.curx \in px..(px + (sx2 - sx1))
       IN IF ~pad.leaveit /\ inside
          THEN /\ curscr'.cury = pad.cury - py + sy1
               /\ curscr'.curx = pad.curx - px + sx1
               /\ curscr'.cury \in sy1..sy2
               /\ curscr'.curx \in sx1..sx2
          ELSE /\ curscr'.cury = curscr.cury
               /\ curscr'.curx = curscr.curx]_vars

\* C5 witness: the pad cursor on the bottom edge of the displayed part, not
\* at the pad's origin, and the screen cursor moved to its place
C5_Witness ==
  /\ Composited /\ call.w = "pad" /\ ~pad.leaveit
  /\ pad.cury = Clamp0(call.args[1]) + (call.args[5] - Clamp0(call.args[3]))
  /\ pad.cury > 0
  /\ curscr.cury = call.args[5]
  /\ curscr.curx = pad.curx - Clamp0(call.args[2]) + Clamp0(call.args[4])
  /\ curscr.curx > 0

\* C6: subpad() on a pad made by newpad() gives a sub-pad only for a region
\* inside the pad (0 <= begy, 0 <= begx, begy+nlines <= height,
\* begx+ncols <= width), and its bounds check rejects no such region.
C6_SubpadBounds ==
  (call.op = "subpad" /\ pad.flags = "_PAD") =>
     LET nl == call.args[1]
         nc == call.args[2]
         by == call.args[3]
         bx == call.args[4]
         within == /\ 0 <= by /\ 0 <= bx
                   /\ by + nl <= pad.maxy /\ bx + nc <= pad.maxx
     IN /\ call.ret = "win" => within
        /\ within => ~SubpadRejected(pad, nl, nc, by, bx)

\* C10: a pnoutrefresh() with negative py, px, sy1 or sx1 returns what the
\* call with those values replaced by 0 returns, and leaves the screen
\* (cells, damage, cursor) and the pad as that call leaves them.
C10_NegativeAsZero ==
  [][(call'.op = "pnoutrefresh" /\ call'.ret # "none") =>
       LET a == call'.args
           b == <<Clamp0(a[1]), Clamp0(a[2]), Clamp0(a[3]), Clamp0(a[4]), a[5], a[6]>>
       IN \E junk \in Cell :
            LET r == PNoutRefresh(Win(call'.w), store, curscr, b, junk)
            IN /\ call'.ret = r.ret
               /\ curscr' = r.scr
               /\ (IF call'.w = "pad" THEN pad' ELSE sub') = r.w]_vars

(***************************************************************************)
(* nsh_fsutils.c.  The file holds the bytes 1, 2, .., len.  Every action   *)
(* is one open(), read() or nsh_write() with what the helper does on its   *)
(* return, up to its next I/O call.  res is what the call returns: a count *)
(* of bytes, or the errno of a failure.                                    *)
(***************************************************************************)
ERROR == "ERROR"
EINTR == "EINTR"
EIO == "EIO"
Newline == 0

FileBytes(from, n) == [i \in 1..n |-> from + i]

\* what an I/O call returns: a count of bytes, or -1 with errno set
Returns(n) == [n |-> n, errno |-> "none"]
Fails(e) == [n |-> -1, errno |-> e]
IOResults == {Returns(n) : n \in 0..MaxFileLen} \cup {Fails(EINTR), Fails(EIO)}

Failures(f) ==
  (IF f.nintr < MaxIntr THEN {Fails(EINTR)} ELSE {})
  \cup (IF f.nerr < MaxErr THEN {Fails(EIO)} ELSE {})

\* what read(fd, buf, count) may return with left bytes before the end of file
ReadResults(f, count) ==
  LET left == f.len - f.pos
      most == min(count, left)
  IN {Returns(n) : n \in (IF most > 0 THEN 1..most ELSE {0})} \cup Failures(f)

\* what nsh_write(vtbl, buffer, count) may return
WriteResults(f, count) == {Returns(n) : n \in 1..count} \cup Failures(f)

\* bookkeeping of the I/O calls: interrupts, errors, and calls made after an error
Counted(f, res) ==
  [f EXCEPT !.nintr = IF res.errno = EINTR THEN @ + 1 ELSE @,
            !.nerr = IF res.errno = EIO THEN @ + 1 ELSE @,
            !.late = IF f.nerr > 0 THEN @ + 1 ELSE @]

\* nsh_catfile: the newline, close() and free() after the loop
CatfileEnd(f) == [f EXCEPT !.out = Append(@, Newline), !.pc = "done"]

\* nsh_catfile up to its first read(): open() and malloc()
nsh_catfile_open(len, openok, mallocok) ==
  /\ fs.pc = "idle"
  /\ fs' = LET f == [NoFile EXCEPT !.helper = "nsh_catfile", !.len = len, !.ret = OK]
           IN IF ~openok
              THEN [f EXCEPT !.rep = <<"open">>, !.ret = ERROR, !.pc = "done"]
              ELSE IF ~mallocok
              THEN [f EXCEPT !.rep = <<"malloc">>, !.ret = ERROR, !.pc = "done"]
              ELSE [f EXCEPT !.pc = "cat_read"]

\* nbytesread = read(fd, buffer, IOBUFFERSIZE)
nsh_catfile_read(res) ==
  /\ fs.pc = "cat_read"
  /\ res \in ReadResults(fs, IOBUFFERSIZE)
  /\ fs' = LET f == Counted(fs, res)
           IN IF res.n < 0
              THEN CatfileEnd([f EXCEPT !.rep = Append(@, IF res.errno = EINTR
                                                           THEN "signal" ELSE "read"),
                                        !.ret = ERROR])
              ELSE IF res.n > 0
              THEN [f EXCEPT !.chunk = FileBytes(f.pos, res.n), !.pos = @ + res.n,
                             !.nbyteswritten = 0, !.pc = "cat_write"]
              ELSE CatfileEnd(f)

\* the bytes nsh_write(vtbl, buffer, nbytesread) puts out when it returns n
CatfileWritten(f, n) == SubSeq(f.chunk, 1, n)

\* where the break after a failed nsh_write() leaves nsh_catfile: out of the
\* inner loop, at the read() of the outer one
CatfileAfterWriteError == "cat_read"

\* n = nsh_write(vtbl, buffer, nbytesread), inside "while (nbyteswritten < nbytesread)"
nsh_catfile_write(res) ==
  /\ fs.pc = "cat_write"
  /\ res \in WriteResults(fs, Len(fs.chunk))
  /\ fs' = LET f == Counted(fs, res)
           IN IF res.n < 0
              THEN [f EXCEPT !.rep = Append(@, IF res.errno = EINTR
                                                THEN "signal" ELSE "write"),
                             !.ret = ERROR,
                             !.pc = CatfileAfterWriteError]
              ELSE [f EXCEPT !.out = @ \o CatfileWritten(f, res.n),
                             !.nbyteswritten = @ + res.n,
                             !.pc = IF f.nbyteswritten + res.n < Len(f.chunk)
                                    THEN "cat_write" ELSE "cat_read"]

\* nsh_readfile up to its first read()
nsh_readfile_open(len, buflen, openok) ==
  /\ fs.pc = "idle"
  /\ fs' = LET f == [NoFile EXCEPT !.helper = "nsh_readfile", !.len = len,
                                   !.buflen = buflen]
           IN IF ~openok
              THEN [f EXCEPT !.rep = <<"open">>, !.ret = ERROR, !.pc = "done"]
              ELSE [f EXCEPT !.ntotal = 0, !.buf = <<>>, !.remaining = buflen - 1,
                             !.ret = ERROR, !.pc = "rd_read"]

\* ReadfileFatal with EINTR taken for an error like any other
ReadfileFatal_always(errcode) == TRUE

\* "if (errcode != EINTR)": is the failed read() fatal?
ReadfileFatal(errcode) == errcode # EINTR

\* nread = read(fd, bufptr, remaining), and the loop's "while (buflen > 0)"
nsh_readfile_read(res) ==
  /\ fs.pc = "rd_read"
  /\ res \in ReadResults(fs, fs.remaining)
  /\ fs' = LET f == Counted(fs, res)
               again == IF f.buflen > 0 THEN "rd_read" ELSE "done"
           IN IF res.n < 0
              THEN (IF ReadfileFatal(res.errno)
                    THEN [f EXCEPT !.rep = Append(@, "read"), !.pc = "done"]
                    ELSE [f EXCEPT !.pc = again])
              ELSE IF res.n = 0
              THEN [f EXCEPT !.ret = OK, !.pc = "done"]
              ELSE [f EXCEPT !.ntotal = @ + res.n,
                             !.buf = @ \o FileBytes(f.pos, res.n),
                             !.pos = @ + res.n,
                             !.remaining = @ - res.n,
                             !.pc = again]

FileStep == UNCHANGED padvars

FCatfileOpen ==
  FileStep /\ \E len \in 0..MaxFileLen, openok \in BOOLEAN, mallocok \in BOOLEAN :
                nsh_catfile_open(len, openok, mallocok)

FCatfileRead == FileStep /\ \E res \in IOResults : nsh_catfile_read(res)

FCatfileWrite == FileStep /\ \E res \in IOResults : nsh_catfile_write(res)

FReadfileOpen ==
  FileStep /\ \E len \in 0..MaxFileLen, buflen \in 1..MaxBufLen, openok \in BOOLEAN :
                nsh_readfile_open(len, buflen, openok)

FReadfileRead == FileStep /\ \E res \in IOResults : nsh_readfile_read(res)

NextFile == FCatfileOpen \/ FCatfileRead \/ FCatfileWrite \/ FReadfileOpen \/ FReadfileRead

SpecFile == Init /\ [][NextFile]_vars

(***************************************************************************)
(* Properties of the file helpers.                                         *)
(***************************************************************************)
FileDone == fs.pc = "done"

\* how often the helper reported what
Reported(what) == Cardinality({i \in DOMAIN fs.rep : fs.rep[i] = what})
FailuresReported == Len(fs.rep) - Reported("signal")

\* what a run with no interrupt and no error delivers
WholeFile == FileBytes(0, fs.len)
FittingPart == FileBytes(0, min(fs.len, fs.buflen - 1))

C8_ErrorAborts ==
  /\ fs.nerr > 0 => fs.late = 0
  /\ (FileDone /\ (fs.nerr > 0 \/ FailuresReported > 0))
       => (fs.ret = ERROR /\ FailuresReported = 1)

\* C9: nsh_readfile returns OK only with the whole file in the buffer,
\* returns ERROR for a file longer than buflen - 1 bytes, and never leaves
\* more than buflen - 1 file bytes in the buffer.
C9_ReadfileWholeOrError ==
  (FileDone /\ fs.helper = "nsh_readfile" /\ Reported("open") = 0) =>
     /\ fs.ret = OK => fs.buf = WholeFile
     /\ fs.len > fs.buflen - 1 => fs.ret = ERROR
     /\ Len(fs.buf) <= fs.buflen - 1

(***************************************************************************)
(* The cells a row copy moves.                                             *)
(***************************************************************************)
\* the pad the last call was made on, and its arguments after the clamps
CallPad == Win(call.w)
CallPy == Clamp0(call.args[1])
CallPx == Clamp0(call.args[2])
CallNumCols == NumCols(CallPad, CallPx, Clamp0(call.args[4]), call.args[6])

\* C11: in a pnoutrefresh() that passes validation num_cols is not negative;
\* every pad cell read lies in pad lines 0.._maxy-1 and pad columns
\* px.._maxx-1, at most num_cols of them in a line; and nothing is copied
\* when px >= _maxx or py >= _maxy.
C11_NumColsClamped ==
  Composited =>
    /\ CallNumCols >= 0
    /\ \A rc \in call.readc :
         /\ rc[1] \in 0..(CallPad.maxy - 1)
         /\ rc[2] \in CallPx..(CallPad.maxx - 1)
         /\ rc[2] < CallPx + CallNumCols
    /\ (CallPx >= CallPad.maxx \/ CallPy >= CallPad.maxy)
         => (call.readc = {} /\ call.wrote = {})

====
